---- MODULE Spec2Model ----
(***************************************************************************)
(* The agent response stream decoder of the chat interface                 *)
(* (frontend/src/components/DataTable.tsx): the read loop of sendMessage   *)
(* (line buffer, line decode, append to the assistant message, active tool *)
(* list) and parseContent (plan, step and tool-log markers, hidden tags,   *)
(* display tags, path removal).                                            *)
(*                                                                         *)
(* A JavaScript string is a sequence of one-character strings, so that a   *)
(* chunk or a token may end anywhere inside a line, a prefix, a marker or  *)
(* a tag.                                                                  *)
(***************************************************************************)
EXTENDS Integers, Sequences, FiniteSets, TLC

----------------------------------------------------------------------------
(* String primitives *)

\* s.slice(i - 1): the characters of s from the i-th on
Slice(s, i) == SubSeq(s, i, Len(s))

\* whether p occurs in s at position i
StartsWithAt(s, p, i) ==
  /\ i >= 1
  /\ i + Len(p) - 1 <= Len(s)
  /\ SubSeq(s, i, i + Len(p) - 1) = p

\* s.startsWith(p)
StartsWith(s, p) == StartsWithAt(s, p, 1)

\* the least element of a non-empty set of numbers
Least(S) == CHOOSE x \in S : \A y \in S : x <= y

\* the first position >= i at which p occurs in s, 0 when there is none
IndexOf(s, p, i) ==
  LET at == {j \in i..(Len(s) - Len(p) + 1) : SubSeq(s, j, j + Len(p) - 1) = p}
  IN  IF at = {} THEN 0 ELSE Least(at)

\* the regular expression class \s, over the characters the model uses
IsSpace(c) == c \in {" ", "\n", "\t", "\r"}

RECURSIVE TrimStart(_)
TrimStart(s) == IF s # <<>> /\ IsSpace(s[1]) THEN TrimStart(Tail(s)) ELSE s

RECURSIVE TrimEnd(_)
TrimEnd(s) ==
  IF s # <<>> /\ IsSpace(s[Len(s)]) THEN TrimEnd(SubSeq(s, 1, Len(s) - 1)) ELSE s

\* s.trim()
Trim(s) == TrimEnd(TrimStart(s))

\* s.split('\n'): always at least one element
RECURSIVE Split(_)
Split(s) ==
  LET i == IndexOf(s, <<"\n">>, 1)
  IN  IF i = 0 THEN <<s>>
      ELSE <<SubSeq(s, 1, i - 1)>> \o Split(Slice(s, i + 1))

\* the concatenation of a sequence of strings
RECURSIVE Concat(_)
Concat(ss) == IF ss = <<>> THEN <<>> ELSE Head(ss) \o Concat(Tail(ss))

----------------------------------------------------------------------------
(* JSON.parse, for the values the protocol carries: strings, objects and   *)
(* arrays.  A value is [t, s, kids]: t its type, s the characters of a     *)
(* string, kids the members <<[k, v]>> of an object or the elements of an  *)
(* array (k empty).  Numbers, true, false and null are not modelled and no *)
(* input of the model holds one.                                           *)

Undefined == [t |-> "undefined", s |-> <<>>, kids |-> <<>>]
Str(chars) == [t |-> "string", s |-> chars, kids |-> <<>>]
Obj(members) == [t |-> "object", s |-> <<>>, kids |-> members]
Arr(elements) == [t |-> "array", s |-> <<>>, kids |-> elements]

\* a SyntaxError thrown by JSON.parse
ParseFail == [ok |-> FALSE, v |-> Undefined, n |-> 0]
ParseOk(v, n) == [ok |-> TRUE, v |-> v, n |-> n]

\* the first position >= i of s that holds no white space
RECURSIVE SkipWs(_, _)
SkipWs(s, i) == IF i <= Len(s) /\ IsSpace(s[i]) THEN SkipWs(s, i + 1) ELSE i

\* the character an escape sequence \c of a JSON string stands for, "" when
\* c starts none (\b, \f and \u are not modelled)
Unescaped(c) ==
  CASE c = "n" -> "\n"
    [] c = "t" -> "\t"
    [] c = "r" -> "\r"
    [] c \in {"\"", "\\", "/"} -> c
    [] OTHER -> ""

\* the characters of a JSON string after its opening quote, unescaped: acc
\* holds those before position i
RECURSIVE ParseChars(_, _, _)
ParseChars(s, i, acc) ==
  IF i > Len(s) THEN ParseFail
  ELSE IF s[i] = "\"" THEN ParseOk(Str(acc), i + 1)
  ELSE IF s[i] = "\\" THEN
    IF i + 1 > Len(s) \/ Unescaped(s[i + 1]) = "" THEN ParseFail
    ELSE ParseChars(s, i + 2, Append(acc, Unescaped(s[i + 1])))
  ELSE IF s[i] \in {"\n", "\t", "\r"} THEN ParseFail
  ELSE ParseChars(s, i + 1, Append(acc, s[i]))

RECURSIVE ParseValue(_, _)
RECURSIVE ParseMembers(_, _, _)
RECURSIVE ParseElements(_, _, _)

\* after a member or an element that ends before position e: ',' goes on
\* with the next one, the closing bracket ends the object or the array
MembersNext(s, e, more) ==
  IF e > Len(s) THEN ParseFail
  ELSE IF s[e] = "," THEN ParseMembers(s, SkipWs(s, e + 1), more)
  ELSE IF s[e] = "}" THEN ParseOk(Obj(more), e + 1)
  ELSE ParseFail

ElementsNext(s, e, more) ==
  IF e > Len(s) THEN ParseFail
  ELSE IF s[e] = "," THEN ParseElements(s, e + 1, more)
  ELSE IF s[e] = "]" THEN ParseOk(Arr(more), e + 1)
  ELSE ParseFail

\* a member whose key is parsed and whose value is parsed
MemberValue(s, key, val, acc) ==
  IF ~val.ok THEN ParseFail
  ELSE MembersNext(s, SkipWs(s, val.n), Append(acc, [k |-> key.v.s, v |-> val.v]))

\* a member whose key is parsed: c is where its ':' must be
MemberColon(s, key, c, acc) ==
  IF c > Len(s) \/ s[c] # ":" THEN ParseFail
  ELSE MemberValue(s, key, ParseValue(s, c + 1), acc)

MemberKey(s, key, acc) ==
  IF ~key.ok THEN ParseFail ELSE MemberColon(s, key, SkipWs(s, key.n), acc)

\* the members of an object from position i, which holds no white space
ParseMembers(s, i, acc) ==
  IF i > Len(s) \/ s[i] # "\"" THEN ParseFail
  ELSE MemberKey(s, ParseChars(s, i + 1, <<>>), acc)

ElementValue(s, val, acc) ==
  IF ~val.ok THEN ParseFail
  ELSE ElementsNext(s, SkipWs(s, val.n), Append(acc, [k |-> <<>>, v |-> val.v]))

\* the elements of an array from position i
ParseElements(s, i, acc) == ElementValue(s, ParseValue(s, i), acc)

\* the members of an object whose '{' is before position j
ObjectFrom(s, j) ==
  IF j <= Len(s) /\ s[j] = "}" THEN ParseOk(Obj(<<>>), j + 1)
  ELSE ParseMembers(s, j, <<>>)

\* the elements of an array whose '[' is before position j
ArrayFrom(s, j) ==
  IF j <= Len(s) /\ s[j] = "]" THEN ParseOk(Arr(<<>>), j + 1)
  ELSE ParseElements(s, j, <<>>)

\* the value at position i, which holds no white space
ValueAt(s, i) ==
  IF i > Len(s) THEN ParseFail
  ELSE IF s[i] = "\"" THEN ParseChars(s, i + 1, <<>>)
  ELSE IF s[i] = "{" THEN ObjectFrom(s, SkipWs(s, i + 1))
  ELSE IF s[i] = "[" THEN ArrayFrom(s, SkipWs(s, i + 1))
  ELSE ParseFail

ParseValue(s, i) == ValueAt(s, SkipWs(s, i))

\* a parsed value is the whole text when only white space follows it
WholeText(s, val) ==
  IF val.ok /\ SkipWs(s, val.n) > Len(s) THEN val ELSE ParseFail

\* JSON.parse(s): ok is FALSE where JSON.parse throws
JSONParse(s) == WholeText(s, ParseValue(s, 1))

\* value.key: the last member named key, undefined when there is none or
\* when value is not an object
Get(value, key) ==
  LET at == {i \in 1..Len(value.kids) : value.kids[i].k = key}
  IN  IF value.t # "object" \/ at = {} THEN Undefined
      ELSE value.kids[CHOOSE i \in at : \A j \in at : j <= i].v

\* JavaScript truthiness: undefined and the empty string are falsy
Truthy(value) == value.t \in {"object", "array"} \/ (value.t = "string" /\ value.s # <<>>)

\* String(value), as string concatenation and template literals convert
RECURSIVE JSString(_)
RECURSIVE JoinElements(_)
JSString(value) ==
  CASE value.t = "string" -> value.s
    [] value.t = "undefined" -> <<"u","n","d","e","f","i","n","e","d">>
    [] value.t = "object" -> <<"[","o","b","j","e","c","t"," ","O","b","j","e","c","t","]">>
    [] value.t = "array" -> JoinElements(value.kids)

JoinElements(kids) ==
  IF kids = <<>> THEN <<>>
  ELSE IF Len(kids) = 1 THEN JSString(kids[1].v)
  ELSE JSString(kids[1].v) \o <<",">> \o JoinElements(Tail(kids))

----------------------------------------------------------------------------
(* Regular expressions of parseContent.  Each global replace of the form   *)
(* OPEN[\s\S]*?CLOSE scans left to right: a match starts at the first OPEN  *)
(* that has a CLOSE after it, ends with the first such CLOSE, and the scan  *)
(* goes on after it.  A span is [open, from, close]: where OPEN starts,     *)
(* where the enclosed text starts, where CLOSE starts.                      *)

\* the i flag: the lower-case form of a character
LowerChar(c) ==
  LET upper == <<"A","B","C","D","E","F","G","H","I","J","K","L","M","N","O","P","Q","R","S","T","U","V","W","X","Y","Z">>
      lower == <<"a","b","c","d","e","f","g","h","i","j","k","l","m","n","o","p","q","r","s","t","u","v","w","x","y","z">>
      at == {k \in 1..26 : upper[k] = c}
  IN  IF at = {} THEN c ELSE lower[CHOOSE k \in at : TRUE]

\* the text a case-insensitive pattern is matched against
Lower(s) == [i \in 1..Len(s) |-> LowerChar(s[i])]

RECURSIVE Spans(_, _, _, _)

SpansFromClose(low, open, close, i, j) ==
  IF j = 0 THEN <<>>
  ELSE <<[open |-> i, from |-> i + Len(open), close |-> j]>>
         \o Spans(low, open, close, j + Len(close))

SpansFromOpen(low, open, close, i) ==
  IF i = 0 THEN <<>>
  ELSE SpansFromClose(low, open, close, i, IndexOf(low, close, i + Len(open)))

\* the matches of OPEN[\s\S]*?CLOSE in low, from position from on
Spans(low, open, close, from) ==
  SpansFromOpen(low, open, close, IndexOf(low, open, from))

\* s with every span replaced by pre, then the enclosed text when keep says
\* so, then post; lenClose is the length of CLOSE
RECURSIVE Rebuild(_, _, _, _, _)
Rebuild(s, spans, k, from, rule) ==
  IF k > Len(spans) THEN Slice(s, from)
  ELSE SubSeq(s, from, spans[k].open - 1)
         \o rule.pre
         \o (IF rule.keep THEN SubSeq(s, spans[k].from, spans[k].close - 1) ELSE <<>>)
         \o rule.post
         \o Rebuild(s, spans, k + 1, spans[k].close + rule.lenClose, rule)

\* .replace(/OPEN[\s\S]*?CLOSE/g, "")
RemoveSpans(s, open, close) ==
  Rebuild(s, Spans(s, open, close, 1), 1, 1,
          [pre |-> <<>>, post |-> <<>>, keep |-> FALSE, lenClose |-> Len(close)])

\* .replace(/<tag>[\s\S]*?<\/tag>/gi, ""): a hidden tag
RemoveHidden(s, tag) ==
  Rebuild(s, Spans(Lower(s), <<"<">> \o tag \o <<">">>, <<"<","/">> \o tag \o <<">">>, 1), 1, 1,
          [pre |-> <<>>, post |-> <<>>, keep |-> FALSE, lenClose |-> Len(tag) + 3])

\* .replace(/<tag>([\s\S]*?)<\/tag>/gi, pre + '$1' + post): a display tag
RewriteDisplay(s, tag, pre, post) ==
  Rebuild(s, Spans(Lower(s), <<"<">> \o tag \o <<">">>, <<"<","/">> \o tag \o <<">">>, 1), 1, 1,
          [pre |-> pre, post |-> post, keep |-> TRUE, lenClose |-> Len(tag) + 3])

\* .replace(/literal/g, "")
RECURSIVE RemoveLiteral(_, _)
RemoveLiteralAt(s, literal, i) ==
  IF i = 0 THEN s
  ELSE SubSeq(s, 1, i - 1) \o RemoveLiteral(Slice(s, i + Len(literal)), literal)

RemoveLiteral(s, literal) == RemoveLiteralAt(s, literal, IndexOf(s, literal, 1))

(* <tag\s+url=["']([^"']+)["']\s*>: the open tag of a display tag that     *)
(* carries a url.  Every step of the match is forced, so the tag matches at *)
(* position i in one way or not at all.                                     *)

IsQuote(c) == c \in {"\"", "'"}

\* the first position >= i of low that holds a quote, Len(low) + 1 if none
RECURSIVE UrlEnd(_, _)
UrlEnd(low, i) == IF i <= Len(low) /\ ~IsQuote(low[i]) THEN UrlEnd(low, i + 1) ELSE i

\* after the url, which ends before position u: ["']\s*>
UrlTagClose(low, u, gt) ==
  IF u <= Len(low) /\ gt <= Len(low) /\ low[gt] = ">" THEN gt ELSE 0

\* the url, which starts at position r: ([^"']+)
UrlTagUrl(low, r, u) ==
  IF u = r THEN 0 ELSE UrlTagClose(low, u, SkipWs(low, u + 1))

\* after the white space, which ends before position q: url=["']
UrlTagAttr(low, q) ==
  IF StartsWithAt(low, <<"u","r","l","=">>, q) /\ q + 4 <= Len(low) /\ IsQuote(low[q + 4])
    THEN UrlTagUrl(low, q + 5, UrlEnd(low, q + 5))
  ELSE 0

\* the position of the '>' of the open tag that starts at position i, 0 when
\* none starts there
UrlTagEnd(low, tag, i) ==
  IF /\ StartsWithAt(low, <<"<">> \o tag, i)
     /\ i + Len(tag) + 1 <= Len(low)
     /\ IsSpace(low[i + Len(tag) + 1])
    THEN UrlTagAttr(low, SkipWs(low, i + Len(tag) + 1))
  ELSE 0

\* the first position >= from at which an open tag with a url starts
UrlTagStart(low, tag, from) ==
  LET at == {i \in from..Len(low) : low[i] = "<" /\ UrlTagEnd(low, tag, i) # 0}
  IN  IF at = {} THEN 0 ELSE Least(at)

RECURSIVE UrlSpans(_, _, _)

UrlSpansFromClose(low, tag, i, gt, j) ==
  IF j = 0 THEN <<>>
  ELSE <<[open |-> i, from |-> gt + 1, close |-> j,
          url |-> [from |-> SkipWs(low, i + Len(tag) + 1) + 5,
                   to |-> UrlEnd(low, SkipWs(low, i + Len(tag) + 1) + 5) - 1]]>>
         \o UrlSpans(low, tag, j + Len(tag) + 3)

UrlSpansFromEnd(low, tag, i, gt) ==
  UrlSpansFromClose(low, tag, i, gt, IndexOf(low, <<"<","/">> \o tag \o <<">">>, gt + 1))

UrlSpansFromOpen(low, tag, i) ==
  IF i = 0 THEN <<>> ELSE UrlSpansFromEnd(low, tag, i, UrlTagEnd(low, tag, i))

\* the matches of <tag\s+url=["']([^"']+)["']\s*>([\s\S]*?)<\/tag>
UrlSpans(low, tag, from) == UrlSpansFromOpen(low, tag, UrlTagStart(low, tag, from))

\* s with every such match replaced by pre + '[$2]($1)' + post
RECURSIVE RebuildUrl(_, _, _, _, _)
RebuildUrl(s, spans, k, from, rule) ==
  IF k > Len(spans) THEN Slice(s, from)
  ELSE SubSeq(s, from, spans[k].open - 1)
         \o rule.pre \o <<"[">>
         \o SubSeq(s, spans[k].from, spans[k].close - 1)
         \o <<"]","(">>
         \o SubSeq(s, spans[k].url.from, spans[k].url.to)
         \o <<")">> \o rule.post
         \o RebuildUrl(s, spans, k + 1, spans[k].close + rule.lenClose, rule)

RewriteUrlDisplay(s, tag, pre, post) ==
  RebuildUrl(s, UrlSpans(Lower(s), tag, 1), 1, 1,
             [pre |-> pre, post |-> post, lenClose |-> Len(tag) + 3])

(* File paths *)

\* the character ` (which a string of this module cannot hold)
Backtick == "U+0060"

\* \/(?:Users|home|var|tmp)\/
PathPrefixes == {<<"/","U","s","e","r","s","/">>, <<"/","h","o","m","e","/">>, <<"/","v","a","r","/">>, <<"/","t","m","p","/">>}

\* whether a path prefix and at least one more character, which is not the
\* character stop, are at position i of s
PathAt(s, i, stop) ==
  \E p \in PathPrefixes :
    /\ StartsWithAt(s, p, i)
    /\ i + Len(p) <= Len(s)
    /\ s[i + Len(p)] # stop

\* ^\/(?:Users|home|var|tmp)\/[^\n]+$ on one line
ScrubLine(line) == IF PathAt(line, 1, "\n") THEN <<>> ELSE line

\* lines.join('\n')
RECURSIVE Join(_)
Join(lines) ==
  IF Len(lines) = 1 THEN lines[1]
  ELSE lines[1] \o <<"\n">> \o Join(Tail(lines))

ScrubLines(lines) == Join([k \in 1..Len(lines) |-> ScrubLine(lines[k])])

\* .replace(/^\/(?:Users|home|var|tmp)\/[^\n]+$/gm, "")
RemoveLinePaths(s) == ScrubLines(Split(s))

RECURSIVE RemoveCodePaths(_)

RemoveCodePathTo(s, i, j) ==
  IF j = 0 THEN s
  ELSE SubSeq(s, 1, i - 1) \o RemoveCodePaths(Slice(s, j + 1))

RemoveCodePathFrom(s, at) ==
  IF at = {} THEN s
  ELSE RemoveCodePathTo(s, Least(at), IndexOf(s, <<"U+0060">>, Least(at) + 2))

\* .replace(/`\/(?:Users|home|var|tmp)\/[^`]+`/g, "")
RemoveCodePaths(s) ==
  RemoveCodePathFrom(s, {i \in 1..Len(s) : s[i] = Backtick /\ PathAt(s, i + 1, Backtick)})

\* .replace(/\n{3,}/g, "\n\n")
RECURSIVE CollapseNewlines(_)
CollapseNewlinesAt(s, i) ==
  IF i = 0 THEN s
  ELSE CollapseNewlines(SubSeq(s, 1, i - 1) \o Slice(s, i + 1))

CollapseNewlines(s) == CollapseNewlinesAt(s, IndexOf(s, <<"\n","\n","\n">>, 1))

(* The markers of the stream protocol *)

planInitOpen == <<"<","<","<","P","l","a","n","I","n","i","t",":">>
planUpdateOpen == <<"<","<","<","P","l","a","n","U","p","d","a","t","e",":">>
stepStartOpen == <<"<","<","<","S","t","e","p","S","t","a","r","t",":">>
stepEndOpen == <<"<","<","<","S","t","e","p","E","n","d",":">>
markerClose == <<">",">",">">>
toolOpen == <<"*","R","u","n","n","i","n","g"," ","t","o","o","l",":"," ">>
toolClose == <<"*">>

\* m[1].trim() for every match m of fullText.matchAll(/OPEN\s*([\s\S]*?)CLOSE/g)
CapturesOf(s, spans) ==
  [k \in 1..Len(spans) |-> Trim(SubSeq(s, spans[k].from, spans[k].close - 1))]

Captures(s, open, close) == CapturesOf(s, Spans(s, open, close, 1))

\* the emoji of the source line, as the four characters the file holds
SourceMark == <<"U+00F0", "U+0178", "U+201C", "U+201E">>

\* the k-th call of the chain of 3. Clean Content, applied to s
CleanStep(s, k) ==
  CASE k = 1 -> RemoveSpans(s, planInitOpen, markerClose)
    [] k = 2 -> RemoveSpans(s, planUpdateOpen, markerClose)
    [] k = 3 -> RemoveSpans(s, stepStartOpen, markerClose)
    [] k = 4 -> RemoveSpans(s, stepEndOpen, markerClose)
    [] k = 5 -> RemoveSpans(s, toolOpen, toolClose)
    [] k = 6 -> RemoveLiteral(s, <<"(","n","o"," ","c","o","n","t","e","n","t",")">>)
    [] k = 7 -> RemoveHidden(s, <<"t","h","i","n","k","i","n","g">>)
    [] k = 8 -> RemoveHidden(s, <<"p","r","i","v","a","t","e">>)
    [] k = 9 -> RemoveHidden(s, <<"d","e","b","u","g">>)
    [] k = 10 -> RewriteUrlDisplay(s, <<"c","i","t","a","t","i","o","n">>, <<>>, <<>>)
    [] k = 11 -> RewriteDisplay(s, <<"c","i","t","a","t","i","o","n">>, <<"*">>, <<"*">>)
    [] k = 12 -> RewriteDisplay(s, <<"s","u","m","m","a","r","y">>, <<"\n",">"," ">>, <<"\n">>)
    [] k = 13 -> RewriteUrlDisplay(s, <<"s","o","u","r","c","e">>, <<"\n">> \o SourceMark \o <<" ","*","*","S","o","u","r","c","e","*","*",":"," ">>, <<"\n">>)
    [] k = 14 -> RewriteDisplay(s, <<"s","o","u","r","c","e">>, <<"\n">> \o SourceMark \o <<" ","*","*","S","o","u","r","c","e","*","*",":"," ">>, <<"\n">>)
    [] k = 15 -> RemoveLinePaths(s)
    [] k = 16 -> RemoveCodePaths(s)
    [] k = 17 -> CollapseNewlines(s)
    [] k = 18 -> Trim(s)

\* the calls of the chain from the k-th on; every call of the chain leaves
\* the empty string empty
RECURSIVE CleanChain(_, _)
CleanChain(s, k) ==
  IF s = <<>> \/ k > 18 THEN s ELSE CleanChain(CleanStep(s, k), k + 1)

\* 3. Clean Content: the chain of replaces and the trim
CleanContent(fullText) == CleanChain(fullText, 1)

----------------------------------------------------------------------------
(* parseContent: the research plan.  A task is [id, label, status], each a *)
(* JSON value (undefined when the descriptor has none).  Set and has of a   *)
(* Set<string> are the set operations on such values; the inputs of the     *)
(* model give id, description and status as strings or not at all.          *)

pending == Str(<<"p","e","n","d","i","n","g">>)
running == Str(<<"r","u","n","n","i","n","g">>)
completed == Str(<<"c","o","m","p","l","e","t","e","d">>)

\* const label, const id and the status of a descriptor t
TaskOf(t) ==
  IF t.t = "string" THEN [id |-> Undefined, label |-> t, status |-> pending]
  ELSE [id |-> Get(t, <<"i","d">>),
        label |-> Get(t, <<"d","e","s","c","r","i","p","t","i","o","n">>),
        status |-> IF Truthy(Get(t, <<"s","t","a","t","u","s">>)) THEN Get(t, <<"s","t","a","t","u","s">>) ELSE pending]

\* const key = id || label
Key(task) == IF Truthy(task.id) THEN task.id ELSE task.label

\* PushTask with the bug of not consulting seenTasks
PushTaskUnseen(acc, task) ==
  [plan |-> Append(acc.plan, task), seen |-> acc.seen \cup {Key(task)}]

\* if (!seenTasks.has(key)) { planValues.push(...); seenTasks.add(key) }:
\* acc is [plan, seen], planValues and seenTasks
PushTask(acc, task) ==
  IF Key(task) \in acc.seen THEN acc
  ELSE [plan |-> Append(acc.plan, task), seen |-> acc.seen \cup {Key(task)}]

\* parsed.forEach(...) over the elements from the k-th on
RECURSIVE ForEachTask(_, _, _)
ForEachTask(acc, kids, k) ==
  IF k > Len(kids) THEN acc
  ELSE ForEachTask(PushTask(acc, TaskOf(kids[k].v)), kids, k + 1)

\* the try block of one PlanInit or PlanUpdate match: JSON.parse throws on
\* a text that is no JSON, and forEach is no function of a value that is no
\* array; the catch logs and goes on
PlanMarkerParsed(acc, parsed) ==
  IF parsed.ok /\ parsed.v.t = "array" THEN ForEachTask(acc, parsed.v.kids, 1)
  ELSE acc

PlanMarker(acc, capture) == PlanMarkerParsed(acc, JSONParse(capture))

\* for (const m of fullText.matchAll(regex)) over the captures from the k-th
RECURSIVE PlanMarkers(_, _, _)
PlanMarkers(acc, captures, k) ==
  IF k > Len(captures) THEN acc
  ELSE PlanMarkers(PlanMarker(acc, captures[k]), captures, k + 1)

\* 1. and 1b.: every PlanInit match, then every PlanUpdate match, with one
\* seenTasks for both
PlanValues(fullText) ==
  PlanMarkers(PlanMarkers([plan |-> <<>>, seen |-> {}],
                          Captures(fullText, planInitOpen, markerClose), 1),
              Captures(fullText, planUpdateOpen, markerClose), 1).plan

\* if (data.id) ids.add(data.id); if (data.description) labels.add(...):
\* sets is [ids, labels]; a StepEnd object gives no label
StepObject(sets, data, withLabel) ==
  [ids |-> IF Truthy(Get(data, <<"i","d">>)) THEN sets.ids \cup {Get(data, <<"i","d">>)}
           ELSE sets.ids,
   labels |-> IF withLabel /\ Truthy(Get(data, <<"d","e","s","c","r","i","p","t","i","o","n">>))
                THEN sets.labels \cup {Get(data, <<"d","e","s","c","r","i","p","t","i","o","n">>)}
              ELSE sets.labels]

\* labels.add(m[1].trim()): the raw string, also from the catch
StepString(sets, capture) == [sets EXCEPT !.labels = @ \cup {Str(capture)}]

StepParsed(sets, capture, parsed, withLabel) ==
  IF parsed.ok THEN StepObject(sets, parsed.v, withLabel)
  ELSE StepString(sets, capture)

\* the try block of one StepStart or StepEnd match, with its catch
StepMarker(sets, capture, withLabel) ==
  IF StartsWith(capture, <<"{">>)
    THEN StepParsed(sets, capture, JSONParse(capture), withLabel)
  ELSE StepString(sets, capture)

RECURSIVE StepMarkers(_, _, _, _)
StepMarkers(sets, captures, k, withLabel) ==
  IF k > Len(captures) THEN sets
  ELSE StepMarkers(StepMarker(sets, captures[k], withLabel), captures, k + 1, withLabel)

\* runningIds and runningLabels
RunningSets(fullText) ==
  StepMarkers([ids |-> {}, labels |-> {}],
              Captures(fullText, stepStartOpen, markerClose), 1, TRUE)

\* completedIds and completedLabels
CompletedSets(fullText) ==
  StepMarkers([ids |-> {}, labels |-> {}],
              Captures(fullText, stepEndOpen, markerClose), 1, FALSE)

\* the status a task gets from the sets it consults
StatusFrom(task, isCompleted, isRunning) ==
  IF isCompleted THEN [task EXCEPT !.status = completed]
  ELSE IF isRunning THEN [task EXCEPT !.status = running]
  ELSE task

\* Update statuses based on IDs first, then labels
UpdateStatus(task, run, done) ==
  IF Truthy(task.id)
    THEN StatusFrom(task, task.id \in done.ids, task.id \in run.ids)
  ELSE StatusFrom(task, task.label \in done.labels, task.label \in run.labels)

\* UpdateStatuses with the bug of adding a task for a step of no task
UpdateStatusesCreating(plan, run, done) ==
  [k \in 1..Len(plan) |-> UpdateStatus(plan[k], run, done)]
    \o (IF \E l \in run.labels : \A k \in 1..Len(plan) : plan[k].label # l
          THEN <<[id |-> Undefined,
                  label |-> CHOOSE l \in run.labels :
                              \A k \in 1..Len(plan) : plan[k].label # l,
                  status |-> running]>>
        ELSE <<>>)

\* planValues.forEach(t => ...)
UpdateStatuses(plan, run, done) ==
  [k \in 1..Len(plan) |-> UpdateStatus(plan[k], run, done)]

ResearchTasks(fullText) ==
  UpdateStatuses(PlanValues(fullText), RunningSets(fullText), CompletedSets(fullText))

\* 2. Parse Tool Logs
ToolSteps(fullText) == Captures(fullText, toolOpen, toolClose)

\* parseContent(fullText)
ParseContent(fullText) ==
  [cleanContent |-> CleanContent(fullText),
   researchTasks |-> ResearchTasks(fullText),
   toolSteps |-> ToolSteps(fullText)]

(* The read loop of sendMessage *)

\* ---- bounds of the model
\* the longest stream, in lines drawn from WireLines
MaxLines == 2
\* the longest transport chunk, in characters, short of the whole remainder
MaxChunk == 2

VARIABLES
  wire,         \* the response body: the characters the transport will deliver
  pos,          \* how many of them reader.read() has returned so far
  buffer,       \* let buffer: the incomplete last line kept between reads
  messages,     \* the messages state: <<[role, content]>>
  activeTools,  \* the activeTools state: <<[name, description]>>
  isLoading,    \* the isLoading state
  pc,           \* "reading" inside the while loop, "done" after finally
  emitted,      \* history: the lines the for loop has decoded, in order
  turnText,     \* the text the agent streams in the turn, as Text events
  sent,         \* how many of its characters have been appended
  lastCut,      \* history: the value of sent before the last Text event
  currentChatId, \* the currentChatId state, None for null
  serverChats,  \* the chats the server holds
  chats,        \* the chats state of the sidebar
  selecting,    \* the handleSelectChat calls that await their history
  turns,        \* the sendMessage calls: where each is and what it closed over
  fetches,      \* the fetchChats calls that await their list
  deleting,     \* the deleteChat calls that await their DELETE
  calls,        \* how often each handler has been called
  crashed,      \* whether a state updater has thrown
  last          \* history: the last step of a handler

\* the variables of the chat sessions
chatVars == <<currentChatId, serverChats, chats, selecting, turns, fetches,
              deleting, calls, crashed, last>>

vars == <<wire, pos, buffer, messages, activeTools, isLoading, pc, emitted,
          turnText, sent, lastCut, chatVars>>

\* the variables of a turn that is followed one Text event at a time
textVars == <<turnText, sent, lastCut>>

\* the lines a response body is made of in the model, without their '\n'
WireLines == {
  <<"0",":","\"","H","i"," ","\"">>,
  <<"0",":","\"","a","\\","n","b","\"">>,
  <<"0",":","\"","x">>,
  <<"0",":","\"","\"">>,
  <<"d",":","{","\"","t","y","p","e","\"",":","\"","t","o","o","l","_","s","t","a","r","t","\"",",","\"","t","o","o","l","\"",":","\"","s","\"",",","\"","d","e","s","c","r","i","p","t","i","o","n","\"",":","\"","g","\"","}">>,
  <<"d",":","{","\"","t","y","p","e","\"",":","\"","t","o","o","l","_","u","s","a","g","e","\"",",","\"","t","o","o","l","\"",":","\"","s","\"","}">>,
  <<"d",":","{","\"","t","y","p","e","\"",":","\"","r","e","s","e","a","r","c","h","_","e","v","e","n","t","\"",",","\"","r","a","w","\"",":","\"","R","\"","}">>,
  <<"d",":","{","\"","t","y","p","e","\"",":","\"","m","e","t","a","\"","}">>,
  <<"d",":","{","\"","t","y","p","e","\"",":","\"","p","i","n","g","\"","}">>,
  <<"d",":","{","\"","t","y","p","e","\"",":">>,
  <<"d","a","t","a",":","{","\"","t","y","p","e","\"",":","\"","m","e","t","a","\"","}">>,
  <<" ">>
  }

\* AppendToLast with the bug of replacing the content by the new text
AppendToLastReplacing(prev, textToAppend) ==
  [prev EXCEPT ![Len(prev)].content = textToAppend]

\* setMessages(prev => ...) of the append: the last message, when it is the
\* assistant's, gets textToAppend at the end of its content
AppendToLast(prev, textToAppend) ==
  LET lastIndex == Len(prev)
  IN  IF prev[lastIndex].role = "assistant"
        THEN [prev EXCEPT ![lastIndex].content = @ \o textToAppend]
        ELSE prev

\* AddTool with the bug of putting the new description on the active entry
AddToolReplacing(prev, toolName, description) ==
  IF \E i \in 1..Len(prev) : prev[i].name = toolName
    THEN [i \in 1..Len(prev) |->
            IF prev[i].name = toolName
              THEN [name |-> toolName, description |-> description]
            ELSE prev[i]]
  ELSE Append(prev, [name |-> toolName, description |-> description])

\* setActiveTools(prev => ...) of a tool_start or tool_usage event
AddTool(prev, toolName, description) ==
  IF \E i \in 1..Len(prev) : prev[i].name = toolName THEN prev
  ELSE Append(prev, [name |-> toolName, description |-> description])

\* a line that asks for nothing: textToAppend stays "" and no state setter
\* is called.  text is textToAppend; tools is "clear", "add" or "keep".
NoEffect ==
  [text |-> <<>>, tools |-> "keep", name |-> Undefined, description |-> Undefined]

\* CatchParseError with the bug of resetting the tool indicator on an error
CatchParseErrorClearing == [NoEffect EXCEPT !.tools = "clear"]

\* catch (e) { console.error(...) }: a line whose JSON.parse throws
CatchParseError == NoEffect

\* data.tool || 'Tool'
ToolName(tool) == IF Truthy(tool) THEN tool ELSE Str(<<"T","o","o","l">>)

\* data.description || `Running ${toolName}...`
ToolDescription(description, toolName) ==
  IF Truthy(description) THEN description
  ELSE Str(<<"R","u","n","n","i","n","g"," ">> \o JSString(toolName) \o <<".",".",".">>)

\* the branches on data.type of a 'd:' line
DecodeData(data, type) ==
  IF type \in {Str(<<"t","o","o","l","_","s","t","a","r","t">>), Str(<<"t","o","o","l","_","u","s","a","g","e">>)} THEN
    [NoEffect EXCEPT
       !.tools = "add",
       !.name = ToolName(Get(data, <<"t","o","o","l">>)),
       !.description = ToolDescription(Get(data, <<"d","e","s","c","r","i","p","t","i","o","n">>),
                                       ToolName(Get(data, <<"t","o","o","l">>)))]
  ELSE IF type = Str(<<"r","e","s","e","a","r","c","h","_","e","v","e","n","t">>) THEN
    [NoEffect EXCEPT
       !.text = <<"\n","\n">> \o JSString(Get(data, <<"r","a","w">>)) \o <<"\n","\n">>]
  ELSE IF type = Str(<<"m","e","t","a">>) THEN [NoEffect EXCEPT !.tools = "clear"]
  ELSE NoEffect

\* DecodeTextLine with the bug of cleaning every token by itself
DecodeTextLineFiltered(parsed) ==
  IF ~parsed.ok THEN CatchParseError
  ELSE [NoEffect EXCEPT
          !.text = IF Truthy(parsed.v) THEN CleanContent(JSString(parsed.v)) ELSE <<>>,
          !.tools = "clear"]

\* DecodeTextLine with the bug of clearing the tools only for a text that
\* is not empty
DecodeTextLineKeeping(parsed) ==
  IF ~parsed.ok THEN CatchParseError
  ELSE [NoEffect EXCEPT
          !.text = IF Truthy(parsed.v) THEN JSString(parsed.v) ELSE <<>>,
          !.tools = IF Truthy(parsed.v) THEN "clear" ELSE "keep"]

\* a '0:' line whose payload JSON.parse has been applied to
DecodeTextLine(parsed) ==
  IF ~parsed.ok THEN CatchParseError
  ELSE [NoEffect EXCEPT
          !.text = IF Truthy(parsed.v) THEN JSString(parsed.v) ELSE <<>>,
          !.tools = "clear"]

\* a 'd:' line whose payload JSON.parse has been applied to
DecodeDataLine(parsed) ==
  IF ~parsed.ok THEN CatchParseError
  ELSE DecodeData(parsed.v, Get(parsed.v, <<"t","y","p","e">>))

\* the try block of the loop body, with its catch: what one line asks for
Decode(line) ==
  IF StartsWith(line, <<"0",":">>) THEN DecodeTextLine(JSONParse(Slice(line, 3)))
  ELSE IF StartsWith(line, <<"d",":">>) THEN DecodeDataLine(JSONParse(Slice(line, 3)))
  ELSE NoEffect

\* the state setters one decoded line calls
Effect(st, d) ==
  [messages |-> IF d.text # <<>> THEN AppendToLast(st.messages, d.text)
                ELSE st.messages,
   activeTools |-> CASE d.tools = "clear" -> <<>>
                     [] d.tools = "add" ->
                          AddTool(st.activeTools, d.name, d.description)
                     [] OTHER -> st.activeTools]

\* one pass of the for loop over a line that is not blank
HandleLine(st, line) == Effect(st, Decode(line))

\* if (!line.trim()) continue
IsBlank(line) == Trim(line) = <<>>

\* the lines the for loop decodes: those of lines that are not blank
RECURSIVE NonBlank(_)
NonBlank(lines) ==
  IF lines = <<>> THEN <<>>
  ELSE IF IsBlank(Head(lines)) THEN NonBlank(Tail(lines))
  ELSE <<Head(lines)>> \o NonBlank(Tail(lines))

\* the for loop
RECURSIVE HandleLines(_, _)
HandleLines(st, lines) ==
  IF lines = <<>> THEN st
  ELSE HandleLines(HandleLine(st, Head(lines)), Tail(lines))

\* KeptRemainder with the bug of dropping the incomplete line
KeptRemainderDropped(lines) == <<>>

\* buffer = lines.pop() || ""
KeptRemainder(lines) == lines[Len(lines)]

\* the lines before the last element of buffer.split('\n')
CompleteLines(lines) == SubSeq(lines, 1, Len(lines) - 1)

\* the bodies of at most k lines, each line followed by '\n'
RECURSIVE Streams(_)
Streams(k) ==
  IF k = 0 THEN {<<>>}
  ELSE LET shorter == Streams(k - 1)
       IN  shorter \cup {l \o <<"\n">> \o s : l \in WireLines, s \in shorter}

\* ---- bounds of the chat sessions
\* the most calls of sendMessage
MaxTurns == 2
\* the most calls of handleSelectChat
MaxSelects == 2

\* useState<string | null>(null)
None == "null"

\* the chats the server holds when the interface mounts
StoredChats == {"A", "B"}

\* the interface after its mount, with the sidebar's list fetched and no
\* handler called yet
ChatMounted ==
  /\ currentChatId = None
  /\ serverChats = StoredChats
  /\ chats = StoredChats
  /\ selecting = <<>>
  /\ turns = [k \in 1..MaxTurns |-> [pc |-> "idle", chat |-> None, seen |-> <<>>, sent |-> 0]]
  /\ fetches = {}
  /\ deleting = {}
  /\ calls = [select |-> 0, new |-> 0, delete |-> 0]
  /\ crashed = FALSE
  /\ last = [op |-> "mount", chat |-> None]

\* the messages when the read loop starts: the user's and the placeholder
InitMessages ==
  <<[role |-> "user", content |-> <<"q">>],
    [role |-> "assistant", content |-> <<>>]>>

\* the state after setMessages(prev => [...prev, assistantMessage]); the
\* body either ends with '\n' or with a last line cut short (close mid-line)
Init ==
  /\ wire \in {SubSeq(s, 1, Len(s) - cut) : s \in Streams(MaxLines), cut \in {0, 1}}
  /\ pos = 0
  /\ buffer = <<>>
  /\ messages = InitMessages
  /\ activeTools = <<>>
  /\ isLoading = TRUE
  /\ pc = "reading"
  /\ emitted = <<>>
  /\ turnText = <<>>
  /\ sent = 0
  /\ lastCut = 0
  /\ ChatMounted

\* the for loop over the complete lines of one read, and the new remainder
ProcessLines(lines, st, todo) ==
  /\ buffer' = KeptRemainder(lines)
  /\ messages' = st.messages
  /\ activeTools' = st.activeTools
  /\ emitted' = emitted \o todo

DecodeLines(lines, todo) ==
  ProcessLines(lines,
               HandleLines([messages |-> messages, activeTools |-> activeTools], todo),
               todo)

\* one pass of the while loop: reader.read() returns a chunk of n characters
ReadChunk(n) ==
  /\ pc = "reading"
  /\ n >= 1
  /\ pos + n <= Len(wire)
  /\ DecodeLines(Split(buffer \o SubSeq(wire, pos + 1, pos + n)),
                 NonBlank(CompleteLines(Split(buffer \o SubSeq(wire, pos + 1, pos + n)))))
  /\ pos' = pos + n
  /\ UNCHANGED <<wire, isLoading, pc>>
  /\ UNCHANGED <<textVars, chatVars>>

\* ReadDone with the bug of decoding the remainder held in buffer
ReadDoneFlushing ==
  /\ pc = "reading"
  /\ pos = Len(wire)
  /\ pc' = "done"
  /\ isLoading' = FALSE
  /\ activeTools' = <<>>
  /\ messages' = HandleLines([messages |-> messages, activeTools |-> activeTools],
                             NonBlank(<<buffer>>)).messages
  /\ emitted' = emitted \o NonBlank(<<buffer>>)
  /\ UNCHANGED <<wire, pos, buffer>>
  /\ UNCHANGED <<textVars, chatVars>>

\* reader.read() returns done: break, then the finally block
ReadDone ==
  /\ pc = "reading"
  /\ pos = Len(wire)
  /\ pc' = "done"
  /\ isLoading' = FALSE
  /\ activeTools' = <<>>
  /\ UNCHANGED <<wire, pos, buffer, messages, emitted>>
  /\ UNCHANGED <<textVars, chatVars>>

Next ==
  \/ \E n \in (1..MaxChunk) \cup {Len(wire) - pos} : ReadChunk(n)
  \/ ReadDone

Spec == Init /\ [][Next]_vars

\* the content of the assistant message of the turn
Content == messages[Len(messages)].content

----------------------------------------------------------------------------
(* Claims about the read loop *)

\* the lines of s that a '\n' ends, in order, blank ones left out
TerminatedLines(s) ==
  LET nl == {i \in 1..Len(s) : s[i] = "\n"}
      start(i) == IF \E j \in nl : j < i
                    THEN 1 + (CHOOSE j \in nl : j < i /\ \A k \in nl : k < i => k <= j)
                    ELSE 1
      nth[k \in 0..Cardinality(nl)] ==
        IF k = 0 THEN 0 ELSE Least({i \in nl : i > nth[k - 1]})
      all == [k \in 1..Cardinality(nl) |-> SubSeq(s, start(nth[k]), nth[k] - 1)]
  IN  SelectSeq(all, LAMBDA l : ~IsBlank(l))

\* C3: however the body is cut into chunks, the lines decoded so far are the
\* newline-terminated, non-blank lines of the part of the body delivered so
\* far, each once and in order: the same as delivering that part in one chunk
C3_ChunkingInvariant == emitted = TerminatedLines(SubSeq(wire, 1, pos))

\* a chunk ended inside the prefix of the second line, after the first line
\* was decoded
C3_Witness == buffer = <<"0">> /\ Len(emitted) = 1 /\ pos < Len(wire)

\* a payload that does not decode, or decodes to no recognized type
IsBadPayload(parsed) ==
  \/ ~parsed.ok
  \/ Get(parsed.v, <<"t","y","p","e">>) \notin
       {Str(<<"t","o","o","l","_","s","t","a","r","t">>), Str(<<"t","o","o","l","_","u","s","a","g","e">>), Str(<<"r","e","s","e","a","r","c","h","_","e","v","e","n","t">>), Str(<<"m","e","t","a">>)}

\* the lines of the claim: not decodable, of neither prefix, or a 'd:'
\* object of an unrecognized type
IsBadLine(line) ==
  IF StartsWith(line, <<"0",":">>) THEN ~JSONParse(Slice(line, 3)).ok
  ELSE IF StartsWith(line, <<"d",":">>) THEN IsBadPayload(JSONParse(Slice(line, 3)))
  ELSE TRUE

\* the state the loop would be in had the bad lines not been in the stream
WithoutBadLines ==
  HandleLines([messages |-> InitMessages, activeTools |-> <<>>],
              SelectSeq(emitted, LAMBDA l : ~IsBadLine(l)))

\* C8: a bad line is a no-op: messages and active tools are at every point
\* what the other lines alone would have made them, and the loop goes on to
\* its normal end
C8_BadLineNoOp ==
  /\ messages = WithoutBadLines.messages
  /\ pc = "reading" => activeTools = WithoutBadLines.activeTools
  /\ pc \in {"reading", "done"}

\* a bad line was decoded while a tool was active, and the tool still is
C8_Witness ==
  /\ Len(emitted) = 2
  /\ ~IsBadLine(emitted[1])
  /\ IsBadLine(emitted[2])
  /\ Len(activeTools) = 1
  /\ pc = "reading"

\* what a line whose payload is parsed contributes to the content, by the
\* wire format
ContributionOf(line, parsed) ==
  IF StartsWith(line, <<"0",":">>) /\ parsed.ok /\ parsed.v.t = "string"
    THEN parsed.v.s
  ELSE IF /\ StartsWith(line, <<"d",":">>)
          /\ parsed.ok
          /\ Get(parsed.v, <<"t","y","p","e">>) = Str(<<"r","e","s","e","a","r","c","h","_","e","v","e","n","t">>)
          /\ Get(parsed.v, <<"r","a","w">>).t = "string"
    THEN <<"\n","\n">> \o Get(parsed.v, <<"r","a","w">>).s \o <<"\n","\n">>
  ELSE <<>>

Contribution(line) == ContributionOf(line, JSONParse(Slice(line, 3)))

\* C9: the assistant message is the concatenation, in arrival order, of the
\* decoded text of every text frame and of "\n\n" + raw + "\n\n" for every
\* research_event frame decoded so far
C9_ContentIsConcatenation ==
  Content = Concat([i \in 1..Len(emitted) |-> Contribution(emitted[i])])

\* a text frame and then a research_event frame were appended
C9_Witness ==
  /\ Len(emitted) = 2
  /\ Content = <<"a","\n","b","\n","\n","R","\n","\n">>

\* a decoded line with 'd:' in the place of a legacy prefix 'data:'
AsDataLine(line) ==
  IF StartsWith(line, <<"d","a","t","a",":">>) THEN <<"d",":">> \o Slice(line, 6) ELSE line

\* the state the loop would be in had every 'data:' line come as a 'd:' line
WithDataPrefix ==
  HandleLines([messages |-> InitMessages, activeTools |-> <<>>],
              [i \in 1..Len(emitted) |-> AsDataLine(emitted[i])])

\* C13: a 'data:' line changes text and active tools as the same object
\* after 'd:' does: messages and tools are what they would be had every
\* 'data:' line come with the prefix 'd:'
C13_LegacyPrefixEquivalent ==
  /\ messages = WithDataPrefix.messages
  /\ pc = "reading" => activeTools = WithDataPrefix.activeTools

\* the decoded lines of the stream, as what each asks for
Asked == [i \in 1..Len(emitted) |-> Decode(emitted[i])]

\* the index of the last line that cleared the tools, 0 when none did
LastClear(asked) ==
  IF \E i \in 1..Len(asked) : asked[i].tools = "clear"
    THEN CHOOSE i \in 1..Len(asked) :
           /\ asked[i].tools = "clear"
           /\ \A j \in 1..Len(asked) : asked[j].tools = "clear" => j <= i
  ELSE 0

\* the description the first tool event of that name gave, among the lines
\* after index from
FirstDescription(asked, from, name) ==
  asked[Least({i \in (from + 1)..Len(asked) :
                 asked[i].tools = "add" /\ asked[i].name = name})].description

\* whether no two tools have the same name, and each has the description of
\* the first event of its name since the tools were last cleared
FirstKept(tools, asked) ==
  /\ \A i, j \in 1..Len(tools) : i # j => tools[i].name # tools[j].name
  /\ \A i \in 1..Len(tools) :
       tools[i].description = FirstDescription(asked, LastClear(asked), tools[i].name)

\* C14: the active tool list never holds two entries of one name, and an
\* entry keeps the description of the first event of its name
C14_ToolsDistinctFirstKept == pc = "reading" => FirstKept(activeTools, Asked)

\* tool_start and then tool_usage of the same tool arrived: one entry, with
\* the description of the tool_start
C14_Witness ==
  /\ pc = "reading"
  /\ emitted = <<<<"d",":","{","\"","t","y","p","e","\"",":","\"","t","o","o","l","_","s","t","a","r","t","\"",",","\"","t","o","o","l","\"",":","\"","s","\"",",","\"","d","e","s","c","r","i","p","t","i","o","n","\"",":","\"","g","\"","}">>,
                 <<"d",":","{","\"","t","y","p","e","\"",":","\"","t","o","o","l","_","u","s","a","g","e","\"",",","\"","t","o","o","l","\"",":","\"","s","\"","}">>>>
  /\ activeTools = <<[name |-> Str(<<"s">>), description |-> Str(<<"g">>)]>>

\* a '0:' line that decodes, or a 'd:' line of type meta
IsClearingLine(line) ==
  IF StartsWith(line, <<"0",":">>) THEN JSONParse(Slice(line, 3)).ok
  ELSE /\ StartsWith(line, <<"d",":">>)
       /\ JSONParse(Slice(line, 3)).ok
       /\ Get(JSONParse(Slice(line, 3)).v, <<"t","y","p","e">>) = Str(<<"m","e","t","a">>)

\* C15: when the last line decoded is a text frame that decodes, its text
\* empty or not, or a meta frame, the active tool list is empty
C15_TextOrMetaClears ==
  (emitted # <<>> /\ IsClearingLine(emitted[Len(emitted)])) => activeTools = <<>>

\* a tool was active when a text frame of empty text arrived, and the list
\* is empty while the loop goes on
C15_Witness ==
  /\ pc = "reading"
  /\ emitted = <<<<"d",":","{","\"","t","y","p","e","\"",":","\"","t","o","o","l","_","s","t","a","r","t","\"",",","\"","t","o","o","l","\"",":","\"","s","\"",",","\"","d","e","s","c","r","i","p","t","i","o","n","\"",":","\"","g","\"","}">>, <<"0",":","\"","\"">>>>
  /\ activeTools = <<>>

----------------------------------------------------------------------------
(* A turn whose transport may fail *)

\* ShowError with the bug of showing the message without its "Error: "
ShowErrorBare(prev, message) ==
  SubSeq(prev, 1, Len(prev) - 1)
    \o <<[role |-> "assistant", content |-> message]>>

\* setMessages(prev => [...prev.slice(0, -1), { role: 'assistant',
\* content: `Error: ${e.message}` }]) of the catch block
ShowError(prev, message) ==
  SubSeq(prev, 1, Len(prev) - 1)
    \o <<[role |-> "assistant", content |-> <<"E","r","r","o","r",":"," ">> \o message]>>

\* reader.read() rejects: the catch block of sendMessage, then finally
ReadFail ==
  /\ pc = "reading"
  /\ messages' = ShowError(messages, <<"n","e","t","w","o","r","k"," ","e","r","r","o","r">>)
  /\ isLoading' = FALSE
  /\ activeTools' = <<>>
  /\ pc' = "failed"
  /\ UNCHANGED <<wire, pos, buffer, emitted>>
  /\ UNCHANGED <<textVars, chatVars>>

NextFail ==
  \/ Next
  \/ ReadFail

SpecFail == Init /\ [][NextFail]_vars

\* the text the lines decoded so far have accumulated for the turn
Accumulated == Concat([i \in 1..Len(emitted) |-> Contribution(emitted[i])])

\* C11: after the transport failed with text accumulated for the turn, an
\* assistant message still holds that text
C11_PartialTextKept ==
  (pc = "failed" /\ Accumulated # <<>>)
    => \E i \in 1..Len(messages) :
         messages[i].role = "assistant" /\ messages[i].content = Accumulated

\* the state of the loop after it decoded the lines, from the placeholder on
Decoded(lines) == HandleLines([messages |-> InitMessages, activeTools |-> <<>>], lines)

\* the lines of the body a '\n' ends, for a body that has been read to its end
DecodedAtClose(lines) ==
  /\ emitted = lines
  /\ messages = Decoded(lines).messages
  /\ activeTools = <<>>

\* C30: only newline-terminated lines change state: when the transport has
\* closed, what was decoded is the terminated lines of the body and nothing
\* of a remainder held in buffer, which changed neither the accumulated text
\* nor the active tools.
C30_RemainderDiscarded == pc = "done" => DecodedAtClose(TerminatedLines(wire))

\* the transport closed on a last line that decodes but has no '\n'
C30_Witness ==
  /\ pc = "done"
  /\ buffer = <<"0",":","\"","H","i"," ","\"">>
  /\ Len(emitted) >= 1
  /\ Content # <<>>

\* every line of the body, the last one with or without its '\n'
AllLines(s) == NonBlank(Split(s))

\* whether a line is a meta frame
IsMetaLine(line, parsed) ==
  StartsWith(line, <<"d",":">>) /\ parsed.ok /\ Get(parsed.v, <<"t","y","p","e">>) = Str(<<"m","e","t","a">>)

NoMeta(lines) ==
  \A i \in 1..Len(lines) : ~IsMetaLine(lines[i], JSONParse(Slice(lines[i], 3)))

\* the text of every line received
Received(lines) == Concat([i \in 1..Len(lines) |-> Contribution(lines[i])])

----------------------------------------------------------------------------
(* The turn from its request on: POST /api/chat may be rejected or answer   *)
(* not ok before the placeholder of the assistant is added.                 *)

\* new Error('API request failed') of a response that is not ok, and the
\* message of a fetch that is rejected
RequestErrors == {<<"A","P","I"," ","r","e","q","u","e","s","t"," ","f","a","i","l","e","d">>, <<"F","a","i","l","e","d"," ","t","o"," ","f","e","t","c","h">>}

\* the state after setMessages(allMessages); setIsLoading(true)
InitRequest ==
  /\ wire \in {SubSeq(s, 1, Len(s) - cut) : s \in Streams(MaxLines), cut \in {0, 1}}
  /\ pos = 0
  /\ buffer = <<>>
  /\ messages = <<InitMessages[1]>>
  /\ activeTools = <<>>
  /\ isLoading = TRUE
  /\ pc = "posting"
  /\ emitted = <<>>
  /\ turnText = <<>>
  /\ sent = 0
  /\ lastCut = 0
  /\ ChatMounted

\* fetch('/api/chat') answers ok: setMessages(prev => [...prev, assistantMessage])
RequestAnswered ==
  /\ pc = "posting"
  /\ messages' = Append(messages, InitMessages[2])
  /\ pc' = "reading"
  /\ UNCHANGED <<wire, pos, buffer, activeTools, isLoading, emitted>>
  /\ UNCHANGED <<textVars, chatVars>>

\* fetch('/api/chat') is rejected or answers not ok: catch, then finally
RequestFailed(message) ==
  /\ pc = "posting"
  /\ messages' = ShowError(messages, message)
  /\ isLoading' = FALSE
  /\ activeTools' = <<>>
  /\ pc' = "failed"
  /\ UNCHANGED <<wire, pos, buffer, emitted>>
  /\ UNCHANGED <<textVars, chatVars>>

NextRequest ==
  \/ RequestAnswered
  \/ \E message \in RequestErrors : RequestFailed(message)
  \/ \E n \in (1..MaxChunk) \cup {Len(wire) - pos} : ReadChunk(n)
  \/ ReadDone
  \/ ReadFail

SpecRequest == InitRequest /\ [][NextRequest]_vars

\* a step of the turn as pc and pos show it: every step of NextRequest, and
\* no other step, changes one of the two
Settled ==
  /\ pc \in {"posting", "reading"}
  /\ pc' \in {"reading", "done", "failed"}
  /\ pos' \in pos..Len(wire)

\* every fetch and every read of the turn settles: the promise the handler
\* awaits is resolved or rejected
SpecRequestFair == SpecRequest /\ WF_<<pc, pos>>(Settled)

\* the last message of the list is the assistant's and starts with "Error: "
ErrorShown ==
  /\ messages # <<>>
  /\ messages[Len(messages)].role = "assistant"
  /\ StartsWith(messages[Len(messages)].content, <<"E","r","r","o","r",":"," ">>)

\* the turn is over: a later sendMessage passes the guard on isLoading
TurnOver == pc \in {"done", "failed"} /\ ~isLoading /\ activeTools = <<>>

\* C25: every turn that fails (request rejected, response not ok, read
\* error) ends with a visible assistant message that starts with "Error: ",
\* and every turn, failed or not, eventually has isLoading false and no
\* active tool, so that a later sendMessage is accepted.
C25_FailureShownTurnEnds ==
  /\ [](pc = "failed" => ErrorShown)
  /\ <>[]TurnOver

\* a read failed after a line of text was decoded, and the error is shown
C25_Witness ==
  /\ pc = "failed"
  /\ Len(emitted) >= 1
  /\ ErrorShown
  /\ TurnOver

\* C27: the user's message of the turn stays in the list whatever the
\* outcome: after a request that was rejected or answered not ok, the list
\* holds the user's message followed by the error message.
C27_UserMessageKept ==
  pc = "failed"
    => \E i \in 1..(Len(messages) - 1) :
         /\ messages[i] = InitMessages[1]
         /\ messages[i + 1].role = "assistant"
         /\ StartsWith(messages[i + 1].content, <<"E","r","r","o","r",":"," ">>)

----------------------------------------------------------------------------
(* A turn followed one Text event at a time: every '0:' line of the body   *)
(* decodes to the next token of the turn's text, and the assistant message *)
(* is rendered from parseContent of what has accumulated.                   *)

\* ---- bounds of the model
\* the longest token, in characters, short of the whole text
MaxToken == 2

\* the characters that the texts below hold only inside hidden tags
Secret == {"X", "Y"}

\* texts in which every hidden tag is closed
HiddenSpanTexts == {
  <<"a","<","t","h","i","n","k","i","n","g",">","X","<","/","t","h","i","n","k","i","n","g",">"," ","b">>,
  <<"<","t","h","i","n","k","i","n","g",">","s","e","c","r","e","t","<","/","t","h","i","n","k","i","n","g",">"," ","v","i","s","i","b","l","e">>,
  <<"<","p","r","i","v","a","t","e",">","X","Y","<","/","p","r","i","v","a","t","e",">","c">>,
  <<"a"," ","<","d","e","b","u","g",">","X","<","/","d","e","b","u","g",">">>,
  <<"<","T","H","I","N","K","I","N","G",">","X","<","/","T","h","i","n","k","i","n","g",">","b">>,
  <<"<","t","h","i","n","k","i","n","g",">","X","<","d","e","b","u","g",">","Y","<","/","d","e","b","u","g",">","X","<","/","t","h","i","n","k","i","n","g",">","b">>,
  <<"<","t","h","i","n","k","i","n","g",">","X","<","t","h","i","n","k","i","n","g",">","Y","<","/","t","h","i","n","k","i","n","g",">","X","<","/","t","h","i","n","k","i","n","g",">","b">>,
  <<"<","t","h","i","n","k","i","n","g",">","<","<","<","P","l","a","n","I","n","i","t",":"," ","[","\"","X","\"","]",">",">",">","<","/","t","h","i","n","k","i","n","g",">","b">>
  }

\* texts that end inside a hidden tag
UnclosedTagTexts == {
  <<"a","<","t","h","i","n","k","i","n","g",">","X">>,
  <<"b","<","p","r","i","v","a","t","e",">","X","<","d","e","b","u","g",">","Y","<","/","d","e","b","u","g",">","X">>
  }

\* texts in which a removal joins what is around it into a tag or a marker
JoiningTexts == {
  <<"<","t","h","i","<","d","e","b","u","g",">","Y","<","/","d","e","b","u","g",">","n","k","i","n","g",">","d","<","/","t","h","i","n","k","i","n","g",">">>,
  <<"<","<","<","P","l","a","n","<","<","<","S","t","e","p","E","n","d",":"," ","A",">",">",">","I","n","i","t",":"," ","[","\"","A","\"","]",">",">",">","c">>
  }

\* texts with display tags, tool logs, paths and blank lines
DisplayTexts == {
  <<"s","e","e"," ","<","c","i","t","a","t","i","o","n"," ","u","r","l","=","\"","u","\"",">","t","<","/","c","i","t","a","t","i","o","n",">"," ","o","r"," ","<","c","i","t","a","t","i","o","n",">","c","<","/","c","i","t","a","t","i","o","n",">">>,
  <<"<","s","u","m","m","a","r","y",">","s","<","/","s","u","m","m","a","r","y",">","\n","\n","\n","z"," ","<","s","o","u","r","c","e"," ","u","r","l","=","'","u","'",">","t","<","/","s","o","u","r","c","e",">","<","s","o","u","r","c","e",">","p","<","/","s","o","u","r","c","e",">">>,
  <<"a","\n","/","t","m","p","/","f","\n","b"," ","U+0060","/","h","o","m","e","/","f","U+0060"," ","c">>,
  <<" ","k","(","n","o"," ","c","o","n","t","e","n","t",")","*","R","u","n","n","i","n","g"," ","t","o","o","l",":"," ","s","*","l"," ">>,
  <<" ","/","t","m","p","/","f">>
  }

\* the plan and step markers the texts of PlanTexts are made of
PlanFragments == {
  <<"<","<","<","P","l","a","n","I","n","i","t",":"," ","[","\"","A","\"",",","\"","B","\"","]",">",">",">">>,
  <<"<","<","<","P","l","a","n","I","n","i","t",":"," ","[","{","\"","i","d","\"",":","\"","t","\"",",","\"","d","e","s","c","r","i","p","t","i","o","n","\"",":","\"","A","\"",",","\"","s","t","a","t","u","s","\"",":","\"","c","o","m","p","l","e","t","e","d","\"","}","]",">",">",">">>,
  <<"<","<","<","P","l","a","n","I","n","i","t",":"," ","[","\"","A","\"",",",">",">",">">>,
  <<"<","<","<","P","l","a","n","U","p","d","a","t","e",":"," ","[","{","\"","i","d","\"",":","\"","t","\"",",","\"","d","e","s","c","r","i","p","t","i","o","n","\"",":","\"","C","\"","}","]",">",">",">">>,
  <<"<","<","<","P","l","a","n","U","p","d","a","t","e",":"," ","[","\"","A","\"","]",">",">",">">>,
  <<"<","<","<","S","t","e","p","S","t","a","r","t",":"," ","{","\"","i","d","\"",":","\"","t","\"","}",">",">",">">>,
  <<"<","<","<","S","t","e","p","S","t","a","r","t",":"," ","{","\"","i","d","\"",":","\"","u","\"",",","\"","d","e","s","c","r","i","p","t","i","o","n","\"",":","\"","B","\"","}",">",">",">">>,
  <<"<","<","<","S","t","e","p","S","t","a","r","t",":"," ","A",">",">",">">>,
  <<"<","<","<","S","t","e","p","S","t","a","r","t",":"," ","{","\"","d","e","s","c","r","i","p","t","i","o","n","\"",":","\"","C","\"","}",">",">",">">>,
  <<"<","<","<","S","t","e","p","E","n","d",":"," ","{","\"","i","d","\"",":","\"","t","\"","}",">",">",">">>,
  <<"<","<","<","S","t","e","p","E","n","d",":"," ","A",">",">",">">>,
  <<"<","<","<","S","t","e","p","E","n","d",":"," ","{","\"","d","e","s","c","r","i","p","t","i","o","n","\"",":","\"","A","\"","}",">",">",">">>
  }

\* the texts of one marker or of two, each followed by a line break
PlanTexts ==
  {f \o <<"\n">> : f \in PlanFragments}
    \cup {f \o <<"\n">> \o g \o <<"\n">> : f \in PlanFragments, g \in PlanFragments}

\* the texts of a turn in the model
Texts ==
  HiddenSpanTexts \cup UnclosedTagTexts \cup JoiningTexts \cup DisplayTexts
    \cup PlanTexts

\* the state after setMessages(prev => [...prev, assistantMessage]), for a
\* turn whose body is a sequence of '0:' lines
InitText ==
  /\ turnText \in Texts
  /\ sent = 0
  /\ lastCut = 0
  /\ wire = <<>>
  /\ pos = 0
  /\ buffer = <<>>
  /\ messages = InitMessages
  /\ activeTools = <<>>
  /\ isLoading = TRUE
  /\ pc = "reading"
  /\ emitted = <<>>
  /\ ChatMounted

\* the state setters of one Text event
TextApplied(st) ==
  /\ messages' = st.messages
  /\ activeTools' = st.activeTools

\* one pass of the for loop over a '0:' line whose payload decodes to the
\* next n characters of the turn's text
TextEvent(n) ==
  /\ pc = "reading"
  /\ n >= 1
  /\ sent + n <= Len(turnText)
  /\ TextApplied(Effect([messages |-> messages, activeTools |-> activeTools],
                        DecodeTextLine(ParseOk(Str(SubSeq(turnText, sent + 1, sent + n)), 0))))
  /\ sent' = sent + n
  /\ lastCut' = sent
  /\ UNCHANGED <<wire, pos, buffer, isLoading, pc, emitted, turnText>>
  /\ UNCHANGED chatVars

\* the body ends after the last token: break, then the finally block
TextDone ==
  /\ pc = "reading"
  /\ sent = Len(turnText)
  /\ pc' = "done"
  /\ isLoading' = FALSE
  /\ activeTools' = <<>>
  /\ UNCHANGED <<wire, pos, buffer, messages, emitted>>
  /\ UNCHANGED <<textVars, chatVars>>

\* a token is at most MaxToken characters, or the whole text in one event
NextText ==
  \/ \E n \in (1..MaxToken) \cup {Len(turnText)} : TextEvent(n)
  \/ TextDone

SpecText == InitText /\ [][NextText]_vars

\* const { cleanContent, researchTasks, toolSteps } =
\*   useMemo(() => parseContent(content), [content]) of the assistant message
Rendered == ParseContent(Content)

----------------------------------------------------------------------------
(* Claims about the rendered text and the plan *)

\* whether s holds a character of Secret
ShowsSecret(s) == \E i \in 1..Len(s) : s[i] \in Secret

\* C1: while a text whose hidden tags are all closed streams in, no
\* rendering of what has accumulated, after any token, holds a character of
\* the content the hidden tags enclose
C1_NoLeakWhileStreaming ==
  turnText \in HiddenSpanTexts => ~ShowsSecret(CleanContent(Content))

\* C2: when the stream has ended inside an open hidden tag, the final clean
\* text holds no character of the content after the open tag
C2_UnclosedTagRedacted ==
  (pc = "done" /\ turnText \in UnclosedTagTexts)
    => ~ShowsSecret(CleanContent(Content))

\* C4: once all of a text has arrived, however it was cut into Text events,
\* the clean text is the clean text of the whole text in one event
C4_SplitSameAsWhole ==
  sent = Len(turnText) => CleanContent(Content) = CleanContent(turnText)

\* a hidden span arrived in several events, the last one the final '>' of
\* its close tag, and the span is gone from the clean text
C4_Witness ==
  /\ turnText = <<"a"," ","<","d","e","b","u","g",">","X","<","/","d","e","b","u","g",">">>
  /\ sent = Len(turnText)
  /\ lastCut = Len(turnText) - 1
  /\ CleanContent(Content) = <<"a">>

\* C5: cleaning the clean text of what has accumulated returns it unchanged
C5_CleanIdempotent ==
  CleanContent(CleanContent(Content)) = CleanContent(Content)

\* whether no two tasks of a plan have the same key
DistinctKeys(plan) ==
  \A i, j \in 1..Len(plan) : i # j => Key(plan[i]) # Key(plan[j])

\* C6: no two tasks of the rendered plan have the same key
C6_NoDuplicateTask == DistinctKeys(Rendered.researchTasks)

\* the same PlanInit arrived twice, and the plan holds its two tasks once
C6_Witness ==
  /\ turnText = <<"<","<","<","P","l","a","n","I","n","i","t",":"," ","[","\"","A","\"",",","\"","B","\"","]",">",">",">","\n","<","<","<","P","l","a","n","I","n","i","t",":"," ","[","\"","A","\"",",","\"","B","\"","]",">",">",">","\n">>
  /\ sent = Len(turnText)
  /\ Len(Rendered.researchTasks) = 2

\* Pending(0) < Running(1) < Completed(2)
Rank(status) ==
  CASE status = pending -> 0
    [] status = running -> 1
    [] status = completed -> 2

\* the plan after the Text event is, task by task, not behind the plan
\* before it
StatusAdvances(before, after) ==
  \A i \in 1..Len(before), j \in 1..Len(after) :
    Key(before[i]) = Key(after[j])
      => Rank(before[i].status) <= Rank(after[j].status)

\* the content the last Text event was appended to
ContentBefore == SubSeq(Content, 1, lastCut)

\* C7: from the rendering before the last Text event to the rendering after
\* it, the status of a task never goes back under pending < running <
\* completed
C7_StatusMonotone ==
  StatusAdvances(ResearchTasks(ContentBefore), ResearchTasks(Content))

\* the id and label of the descriptors of the captures from the k-th on
RECURSIVE DescriptorsOf(_, _)
DescriptorsOfParsed(parsed) ==
  IF parsed.ok /\ parsed.v.t = "array"
    THEN {[id |-> TaskOf(parsed.v.kids[e].v).id,
           label |-> TaskOf(parsed.v.kids[e].v).label] : e \in 1..Len(parsed.v.kids)}
  ELSE {}

DescriptorsOf(captures, k) ==
  IF k > Len(captures) THEN {}
  ELSE DescriptorsOfParsed(JSONParse(captures[k])) \cup DescriptorsOf(captures, k + 1)

\* the descriptors the PlanInit and PlanUpdate markers of a text declare
Declared(fullText) ==
  DescriptorsOf(Captures(fullText, planInitOpen, markerClose), 1)
    \cup DescriptorsOf(Captures(fullText, planUpdateOpen, markerClose), 1)

\* whether every task of a plan has the id and label of a descriptor
AllDeclared(plan, declared) ==
  \A k \in 1..Len(plan) : [id |-> plan[k].id, label |-> plan[k].label] \in declared

\* C10: every task of the rendered plan has the id and label of a
\* descriptor of a PlanInit or PlanUpdate marker: a step marker adds none
C10_StepsCreateNoTask == AllDeclared(Rendered.researchTasks, Declared(Content))

\* two StepStart markers of tasks never declared arrived, and the plan is
\* empty
C10_Witness ==
  /\ turnText = <<"<","<","<","S","t","e","p","S","t","a","r","t",":"," ","{","\"","i","d","\"",":","\"","u","\"",",","\"","d","e","s","c","r","i","p","t","i","o","n","\"",":","\"","B","\"","}",">",">",">","\n","<","<","<","S","t","e","p","S","t","a","r","t",":"," ","A",">",">",">","\n">>
  /\ sent = Len(turnText)
  /\ RunningSets(Content).labels # {}
  /\ Rendered.researchTasks = <<>>

\* C16: once "<thinking>secret</thinking> visible" has arrived, in whatever
\* tokens, the clean text is " visible", with its leading space
C16_VisibleTextKept ==
  (turnText = <<"<","t","h","i","n","k","i","n","g",">","s","e","c","r","e","t","<","/","t","h","i","n","k","i","n","g",">"," ","v","i","s","i","b","l","e">> /\ sent = Len(turnText))
    => CleanContent(Content) = <<" ","v","i","s","i","b","l","e">>

\* two sequences of spans, each in the order of the text, as one
RECURSIVE MergeSpans(_, _)
MergeSpans(a, b) ==
  IF a = <<>> THEN b
  ELSE IF b = <<>> THEN a
  ELSE IF a[1].open < b[1].open THEN <<a[1]>> \o MergeSpans(Tail(a), b)
  ELSE <<b[1]>> \o MergeSpans(a, Tail(b))

\* the plan that keeps, for every key, the descriptor that comes first in
\* the text, whether in a PlanInit or in a PlanUpdate marker
FirstOccurrences(fullText) ==
  PlanMarkers([plan |-> <<>>, seen |-> {}],
              CapturesOf(fullText,
                         MergeSpans(Spans(fullText, planInitOpen, markerClose, 1),
                                    Spans(fullText, planUpdateOpen, markerClose, 1))),
              1).plan

\* whether every task of kept is a task of first
SamePlan(kept, first) ==
  \A i \in 1..Len(kept) : \E j \in 1..Len(first) : kept[i] = first[j]

\* C20: every task kept has the id, label and initial status of the first
\* descriptor of its key in the stream
C20_FirstOccurrenceWins == SamePlan(PlanValues(Content), FirstOccurrences(Content))

\* the identities of the tasks of a plan, in display order
Identities(plan) == [k \in 1..Len(plan) |-> Key(plan[k])]

IsPrefix(a, b) == Len(a) <= Len(b) /\ a = SubSeq(b, 1, Len(a))

\* C21: the plan only grows at its end: the list of the identities of the
\* tasks before a Text event is a prefix of the list after it, so no later
\* marker removes or moves a task.
C21_PlanGrowsAtEnd ==
  IsPrefix(Identities(PlanValues(ContentBefore)), Identities(PlanValues(Content)))

\* what the payload of a StepStart or StepEnd marker names: the id and the
\* description of an object, or the bare string as the label
MarkerRef(capture, parsed) ==
  IF StartsWith(capture, <<"{">>) /\ parsed.ok
    THEN [id |-> Get(parsed.v, <<"i","d">>), label |-> Get(parsed.v, <<"d","e","s","c","r","i","p","t","i","o","n">>)]
  ELSE [id |-> Undefined, label |-> Str(capture)]

\* the two-tier resolution: by id when the marker carries one, else by label
Resolves(ref, task) ==
  IF Truthy(ref.id) THEN task.id = ref.id ELSE task.label = ref.label

\* whether a marker among the captures resolves to the task
Named(captures, task) ==
  \E k \in 1..Len(captures) :
    Resolves(MarkerRef(captures[k], JSONParse(captures[k])), task)

\* every task of the plan that a StepStart resolves to and that is not
\* completed is running
StartedRun(tasks, starts) ==
  \A k \in 1..Len(tasks) :
    (Named(starts, tasks[k]) /\ tasks[k].status # completed)
      => tasks[k].status = running

\* C22: a StepStart resolves its task by id when it carries one and else by
\* label (a bare string, or an object with only a description); a declared
\* task it resolves to, with an id or without, is running unless completed.
C22_StepStartResolves ==
  StartedRun(ResearchTasks(Content), Captures(Content, stepStartOpen, markerClose))

\* every task of the plan that a StepEnd resolves to is completed
EndedCompleted(tasks, ends) ==
  \A k \in 1..Len(tasks) : Named(ends, tasks[k]) => tasks[k].status = completed

\* C23: a StepEnd resolves its task as a StepStart does (by id, else by
\* label, also from an object with only a description) and every declared
\* task it resolves to is completed, whatever its status was.
C23_StepEndResolves ==
  EndedCompleted(ResearchTasks(Content), Captures(Content, stepEndOpen, markerClose))

\* no path is left for the two path removals to take out of s
NoPathLeft(s) == RemoveLinePaths(s) = s /\ RemoveCodePaths(s) = s

\* C26: after all of the steps of parseContent, the final trim included, no
\* line of the clean content is wholly an absolute path under /Users, /home,
\* /var or /tmp and no inline code span of it holds such a path.
C26_NoPathInClean == NoPathLeft(CleanContent(Content))

\* the text without its hidden-tag spans, as the chain of Clean Content
\* removes them
WithoutHidden(s) == CleanStep(CleanStep(CleanStep(s, 7), 8), 9)

\* C28: the tasks parseContent computes from a text are the tasks it computes
\* from the text without its hidden-tag spans: a marker inside <thinking>,
\* <private> or <debug> gives no task label and no status.
C28_PlanIgnoresHidden ==
  ResearchTasks(Content) = ResearchTasks(WithoutHidden(Content))

----------------------------------------------------------------------------
(* The chat sessions of ChatInterface and ChatSidebar: handleNewChat,      *)
(* handleSelectChat, sendMessage and deleteChat, each await a step at which *)
(* other handlers may run.  A message is [id, role, content].  The server   *)
(* keeps what a chat holds unchanged: the backend that stores a turn is not *)
(* part of the source.                                                     *)

\* what GET /api/chats/{chatId} returns for a chat the server holds
History(chatId) ==
  IF chatId \in StoredChats
    THEN <<[id |-> <<chatId, 1>>, role |-> "user", content |-> <<"q">>],
           [id |-> <<chatId, 2>>, role |-> "assistant", content |-> <<"r">>]>>
  ELSE <<>>

\* data.id of the chat that POST /api/chats creates for the k-th call
NewChat(k) == <<"N1", "N2", "N3", "N4">>[k]

\* the text the stream of the k-th call carries, one character a Text event
TurnText(k) == <<<<"1","1">>, <<"2","2">>, <<"3","3">>, <<"4","4">>>>[k]

\* const userMessage = { id: `user-...`, role: 'user', content }
UserMessage(k) == [id |-> <<"user", k>>, role |-> "user", content |-> <<"q">>]

\* const assistantMessage = { id: `assistant-...`, role: 'assistant', content: '' }
AssistantMessage(k) == [id |-> <<"assistant", k>>, role |-> "assistant", content |-> <<>>]

\* useEffect(() => { fetchChats() }, [currentChatId]) of the sidebar: the
\* calls in flight after currentChatId is set to chatId, with the list the
\* server answers
EffectFetches(chatId, list) ==
  IF chatId # currentChatId THEN fetches \cup {[data |-> list, cause |-> None]}
  ELSE fetches

\* the call of sendMessage that comes next
NextTurn == Least({k \in 1..MaxTurns : turns[k].pc = "idle"})

\* setMessages([...messages, userMessage]); setIsLoading(true); fetch('/api/chat'):
\* seen is the messages the call closed over
PostTurn(k, chatId, seen) ==
  /\ messages' = Append(seen, UserMessage(k))
  /\ isLoading' = TRUE
  /\ turns' = [turns EXCEPT ![k] = [pc |-> "posting", chat |-> chatId, seen |-> seen, sent |-> 0]]

\* sendMessage(content) up to its first await
SendCall ==
  /\ ~crashed
  /\ \E k \in 1..MaxTurns : turns[k].pc = "idle"
  /\ ~isLoading
  /\ IF currentChatId = None
       THEN /\ turns' = [turns EXCEPT ![NextTurn] =
                           [pc |-> "creating", chat |-> None, seen |-> messages, sent |-> 0]]
            /\ UNCHANGED <<messages, isLoading>>
     ELSE PostTurn(NextTurn, currentChatId, messages)
  /\ last' = [op |-> "send", chat |-> currentChatId]
  /\ UNCHANGED <<activeTools, currentChatId, serverChats, chats, selecting, fetches,
                 deleting, calls, crashed>>
  /\ UNCHANGED <<wire, pos, buffer, pc, emitted, textVars>>

\* POST /api/chats answers ok: setCurrentChatId(data.id) and on to the turn
ChatCreated(k) ==
  /\ ~crashed
  /\ turns[k].pc = "creating"
  /\ serverChats' = serverChats \cup {NewChat(k)}
  /\ currentChatId' = NewChat(k)
  /\ fetches' = EffectFetches(NewChat(k), serverChats \cup {NewChat(k)})
  /\ PostTurn(k, NewChat(k), turns[k].seen)
  /\ last' = [op |-> "created", chat |-> NewChat(k)]
  /\ UNCHANGED <<activeTools, chats, selecting, deleting, calls, crashed>>
  /\ UNCHANGED <<wire, pos, buffer, pc, emitted, textVars>>

\* POST /api/chats fails: return
CreateFailed(k) ==
  /\ ~crashed
  /\ turns[k].pc = "creating"
  /\ turns' = [turns EXCEPT ![k].pc = "done"]
  /\ last' = [op |-> "create failed", chat |-> None]
  /\ UNCHANGED <<messages, activeTools, isLoading, currentChatId, serverChats, chats,
                 selecting, fetches, deleting, calls, crashed>>
  /\ UNCHANGED <<wire, pos, buffer, pc, emitted, textVars>>

\* POST /api/chat answers: setMessages(prev => [...prev, assistantMessage])
PostAnswered(k) ==
  /\ ~crashed
  /\ turns[k].pc = "posting"
  /\ messages' = Append(messages, AssistantMessage(k))
  /\ turns' = [turns EXCEPT ![k].pc = "reading"]
  /\ last' = [op |-> "answered", chat |-> turns[k].chat]
  /\ UNCHANGED <<activeTools, isLoading, currentChatId, serverChats, chats, selecting,
                 fetches, deleting, calls, crashed>>
  /\ UNCHANGED <<wire, pos, buffer, pc, emitted, textVars>>

\* a Text event of the stream of the k-th call; the updater reads
\* lastMsg.role, which throws when the list is empty
TurnTextEvent(k) ==
  /\ ~crashed
  /\ turns[k].pc = "reading"
  /\ turns[k].sent < Len(TurnText(k))
  /\ IF messages = <<>>
       THEN /\ crashed' = TRUE
            /\ UNCHANGED <<messages, activeTools>>
     ELSE /\ TextApplied(Effect([messages |-> messages, activeTools |-> activeTools],
                                DecodeTextLine(ParseOk(Str(<<TurnText(k)[turns[k].sent + 1]>>), 0))))
          /\ UNCHANGED crashed
  /\ turns' = [turns EXCEPT ![k].sent = @ + 1]
  /\ last' = [op |-> "text", chat |-> turns[k].chat]
  /\ UNCHANGED <<isLoading, currentChatId, serverChats, chats, selecting, fetches,
                 deleting, calls>>
  /\ UNCHANGED <<wire, pos, buffer, pc, emitted, textVars>>

\* the stream of the k-th call ends: the finally block
TurnDone(k) ==
  /\ ~crashed
  /\ turns[k].pc = "reading"
  /\ turns[k].sent = Len(TurnText(k))
  /\ isLoading' = FALSE
  /\ activeTools' = <<>>
  /\ turns' = [turns EXCEPT ![k].pc = "done"]
  /\ last' = [op |-> "ended", chat |-> turns[k].chat]
  /\ UNCHANGED <<messages, currentChatId, serverChats, chats, selecting, fetches,
                 deleting, calls, crashed>>
  /\ UNCHANGED <<wire, pos, buffer, pc, emitted, textVars>>

\* handleNewChat(): setCurrentChatId(null); setMessages([])
ResetToNewChat ==
  /\ currentChatId' = None
  /\ messages' = <<>>

\* the New Chat button of the sidebar
NewChatClick ==
  /\ ~crashed
  /\ calls.new < 1
  /\ calls' = [calls EXCEPT !.new = @ + 1]
  /\ ResetToNewChat
  /\ fetches' = EffectFetches(None, serverChats)
  /\ last' = [op |-> "new", chat |-> None]
  /\ UNCHANGED <<activeTools, isLoading, serverChats, chats, selecting, turns,
                 deleting, crashed>>
  /\ UNCHANGED <<wire, pos, buffer, pc, emitted, textVars>>

\* handleSelectChat(chatId) up to its await, from a click on a chat of the
\* sidebar's list
SelectCall(chatId) ==
  /\ ~crashed
  /\ calls.select < MaxSelects
  /\ chatId \in chats
  /\ calls' = [calls EXCEPT !.select = @ + 1]
  /\ currentChatId' = chatId
  /\ messages' = <<>>
  /\ isLoading' = TRUE
  /\ selecting' = Append(selecting, chatId)
  /\ fetches' = EffectFetches(chatId, serverChats)
  /\ last' = [op |-> "select", chat |-> chatId]
  /\ UNCHANGED <<activeTools, serverChats, chats, turns, deleting, crashed>>
  /\ UNCHANGED <<wire, pos, buffer, pc, emitted, textVars>>

\* GET /api/chats/{chatId} of the i-th pending call answers: setMessages of
\* the history when res.ok, then finally setIsLoading(false)
HistoryLoaded(i) ==
  /\ ~crashed
  /\ i \in 1..Len(selecting)
  /\ messages' = IF selecting[i] \in serverChats THEN History(selecting[i]) ELSE messages
  /\ isLoading' = FALSE
  /\ selecting' = SubSeq(selecting, 1, i - 1) \o SubSeq(selecting, i + 1, Len(selecting))
  /\ last' = [op |-> "loaded", chat |-> selecting[i]]
  /\ UNCHANGED <<activeTools, currentChatId, serverChats, chats, turns, fetches,
                 deleting, calls, crashed>>
  /\ UNCHANGED <<wire, pos, buffer, pc, emitted, textVars>>

\* deleteChat(e, chatId) up to its await, confirmed: current is the
\* currentChatId prop the call closed over
DeleteCall(chatId) ==
  /\ ~crashed
  /\ calls.delete < 1
  /\ chatId \in chats
  /\ calls' = [calls EXCEPT !.delete = @ + 1]
  /\ deleting' = deleting \cup {[chat |-> chatId, current |-> currentChatId]}
  /\ last' = [op |-> "delete", chat |-> chatId]
  /\ UNCHANGED <<messages, activeTools, isLoading, currentChatId, serverChats, chats,
                 selecting, turns, fetches, crashed>>
  /\ UNCHANGED <<wire, pos, buffer, pc, emitted, textVars>>

\* DeleteResets with the bug of never calling onNewChat
DeleteResetsNever(chatId, current) == FALSE

\* if (chatId === currentChatId) onNewChat()
DeleteResets(chatId, current) == chatId = current

\* DELETE /api/chats/{chatId} answers ok: fetchChats(), and onNewChat() for
\* the current chat
DeleteOk(d) ==
  /\ serverChats' = serverChats \ {d.chat}
  /\ IF DeleteResets(d.chat, d.current)
       THEN /\ ResetToNewChat
            /\ fetches' = EffectFetches(None, serverChats \ {d.chat})
                            \cup {[data |-> serverChats \ {d.chat}, cause |-> d.chat]}
     ELSE /\ fetches' = fetches \cup {[data |-> serverChats \ {d.chat}, cause |-> d.chat]}
          /\ UNCHANGED <<currentChatId, messages>>
  /\ last' = [op |-> IF d.chat = d.current THEN "deleted current" ELSE "deleted",
               chat |-> d.chat]

\* DELETE answers not ok: alert and return
DeleteRefused(d) ==
  /\ last' = [op |-> "delete refused", chat |-> d.chat]
  /\ UNCHANGED <<serverChats, fetches, currentChatId, messages>>

\* the DELETE of a pending deleteChat call answers, ok or not
DeleteAnswered(d) ==
  /\ ~crashed
  /\ d \in deleting
  /\ deleting' = deleting \ {d}
  /\ \/ d.chat \in serverChats /\ DeleteOk(d)
     \/ DeleteRefused(d)
  /\ UNCHANGED <<activeTools, isLoading, chats, selecting, turns, calls, crashed>>
  /\ UNCHANGED <<wire, pos, buffer, pc, emitted, textVars>>

\* GET /api/chats of a pending fetchChats call answers: setChats(data)
ChatsListed(f) ==
  /\ ~crashed
  /\ f \in fetches
  /\ chats' = f.data
  /\ fetches' = fetches \ {f}
  /\ last' = [op |-> "listed", chat |-> f.cause]
  /\ UNCHANGED <<messages, activeTools, isLoading, currentChatId, serverChats,
                 selecting, turns, deleting, calls, crashed>>
  /\ UNCHANGED <<wire, pos, buffer, pc, emitted, textVars>>

\* the interface after its mount: no chat selected, nothing sent
InitChat ==
  /\ ChatMounted
  /\ messages = <<>>
  /\ activeTools = <<>>
  /\ isLoading = FALSE
  /\ wire = <<>>
  /\ pos = 0
  /\ buffer = <<>>
  /\ pc = "idle"
  /\ emitted = <<>>
  /\ turnText = <<>>
  /\ sent = 0
  /\ lastCut = 0

\* the turns and the selections of the chat interface; the sidebar's list
\* is not followed
NextChat ==
  \/ SendCall
  \/ \E k \in 1..MaxTurns : ChatCreated(k)
  \/ \E k \in 1..MaxTurns : CreateFailed(k)
  \/ \E k \in 1..MaxTurns : PostAnswered(k)
  \/ \E k \in 1..MaxTurns : TurnTextEvent(k)
  \/ \E k \in 1..MaxTurns : TurnDone(k)
  \/ NewChatClick
  \/ \E chatId \in chats : SelectCall(chatId)
  \/ \E i \in 1..Len(selecting) : HistoryLoaded(i)

SpecChat == InitChat /\ [][NextChat]_vars

\* the sidebar with the selections of the chat interface; no message is sent
NextSidebar ==
  \/ NewChatClick
  \/ \E chatId \in chats : SelectCall(chatId)
  \/ \E i \in 1..Len(selecting) : HistoryLoaded(i)
  \/ \E chatId \in chats : DeleteCall(chatId)
  \/ \E d \in deleting : DeleteAnswered(d)
  \/ \E f \in fetches : ChatsListed(f)

SpecSidebar == InitChat /\ [][NextSidebar]_vars

----------------------------------------------------------------------------
(* Claims on the chat sessions                                              *)

\* the messages of the list whose content is what their owner wrote: a
\* stored message holds its stored content, the user message of a call the
\* text sent, the assistant message of a call a prefix of its stream's text
OwnContent(m) ==
  CASE m.id[1] \in StoredChats -> m.content = History(m.id[1])[m.id[2]].content
    [] m.id[1] = "user" -> m.content = <<"q">>
    [] OTHER -> \E n \in 0..Len(TurnText(m.id[2])) :
                  m.content = SubSeq(TurnText(m.id[2]), 1, n)

\* C12: for every interleaving of a stream in flight with handleNewChat,
\* handleSelectChat or another sendMessage, the text of a turn's stream is
\* appended only to the assistant message of that turn: every message of the
\* list holds the content of its own turn or of its own stored chat.
C12_TurnsShareNoState == \A i \in 1..Len(messages) : OwnContent(messages[i])

\* C17: after handleSelectChat, once every pending history request has
\* completed, the list shown is exactly the stored history of the chat named
\* by currentChatId, also when two selections overlap and their responses
\* arrive in the opposite order (no message sent, New Chat not clicked).
C17_HistoryOfCurrentChat ==
  ( /\ last.op = "loaded"
    /\ selecting = <<>>
    /\ calls.new = 0
    /\ \A k \in 1..MaxTurns : turns[k].pc = "idle" )
  => messages = History(currentChatId)

\* the calls of sendMessage whose POST /api/chat is issued and whose stream
\* has not ended
InTurn == {k \in 1..MaxTurns : turns[k].pc \in {"posting", "reading"}}

\* C18: from the moment a sendMessage call starts a turn until the stream of
\* that turn has ended, no second POST /api/chat is issued, for every
\* interleaving of sendMessage, handleSelectChat and handleNewChat: at most
\* one call is between its POST and the end of its stream.
C18_OneTurnAtATime == Cardinality(InTurn) <= 1

Created == serverChats \ StoredChats

\* the calls of sendMessage that have issued their POST /api/chat
Posted == {k \in 1..MaxTurns : turns[k].pc \in {"posting", "reading", "done"} /\ turns[k].chat # None}

\* C29: starting with no active chat, every interleaving of sendMessage calls
\* creates at most one chat session, and every POST /api/chat that is issued
\* carries the id of that session (no chat selected, New Chat not clicked).
C29_OneSessionCreated ==
  (calls.select = 0 /\ calls.new = 0)
    => /\ Cardinality(Created) <= 1
       /\ \A k \in Posted : Created = {turns[k].chat}

====
